---- MODULE Spec2Model ----
(***************************************************************************)
(* Model of slabigator's Slab<D> (src/src/lib.rs): a fixed-capacity        *)
(* doubly linked list threaded through the vec_next / vec_prev arrays,     *)
(* with a free chain threaded through the same arrays and a validity       *)
(* bitmap (default build: feature "releasefast" off).                      *)
(*                                                                         *)
(* Build modelled: default features (Slot = u32, scaled to SlotBits bits;   *)
(* bitmap present) under cargo's default dev profile, where debug_assert!  *)
(* is compiled in.  A call whose debug_assert! fails panics: it never      *)
(* returns, and the slab is not used afterwards (variable panicked).       *)
(* Every `len -= 1` is preceded by debug_assert!(self.len > 0), so len     *)
(* never wraps in this build.                                              *)
(***************************************************************************)
EXTENDS Integers, Sequences, FiniteSets, TLC

\* ------------------------------------------------------------------ bounds
MaxCap == 3        \* capacities passed to with_capacity: 1..MaxCap
MaxCapRef == 2     \* the same, where the reference-returning pops are in play
MaxVal == 2        \* stored values D: 1..MaxVal
SlotBits == 5      \* width of the Slot type in the model (u32 in the source);
                   \* wide enough for the default capacity
MaxItems == 3      \* longest sequence given to from_iter and extend

\* ------------------------------------------------------------- constants
NUL == 2^SlotBits - 1
Uninit == 0

Values == 1..MaxVal
\* Slot arguments tried on a slab of capacity c: every slot in range, the
\* first one out of range, and the sentinel.
SlotArgs(c) == (0..c) \cup {NUL}
NoArg == 0 - 1

\* -------------------------------------------------------------- variables
VARIABLES
    vec_next, vec_prev, free_head, head, tail, len, data, bitmap,
    cap,         \* data.capacity(), fixed by with_capacity
    last,        \* ghost: the last public call and what it returned
    deque,       \* ghost: reference double-ended sequence of <<slot, value>>
    freed,       \* ghost: how each slot last left the live list
    panicked,    \* TRUE once a call has panicked on a failed debug_assert!
    free_slots,  \* ObjectPool.free_slots (examples/object_pool.rs), front first
    acquired     \* ghost: slots handed out by acquire and not released since

slabvars == <<vec_next, vec_prev, free_head, head, tail, len, data, bitmap, cap>>
vars == <<vec_next, vec_prev, free_head, head, tail, len, data, bitmap, cap,
          last, deque, freed, panicked, free_slots, acquired>>

\* The object pool wraps the slab; the slab's own operations leave it alone.
poolvars == <<free_slots, acquired>>
NoPool == free_slots = <<>> /\ acquired = {}

Self == [vec_next |-> vec_next, vec_prev |-> vec_prev, free_head |-> free_head,
         head |-> head, tail |-> tail, len |-> len, data |-> data,
         bitmap |-> bitmap, cap |-> cap]

\* -------------------------------------------------------------------- bits
as_index(slot) == slot

Bit(k) == 2^k

\* (self.bitmap[slot / 8] & (1 << (slot & 7))) != 0
bitmap_get(self, slot) ==
    ((self.bitmap[as_index(slot) \div 8] \div Bit(as_index(slot) % 8)) % 2) # 0

\* bitmap_set shifting by the byte index instead of the bit index.
bitmap_set_mut(bm, slot) ==
    LET i == as_index(slot) \div 8
        b == Bit(as_index(slot) \div 8)
    IN  IF (bm[i] \div b) % 2 = 1 THEN bm ELSE [bm EXCEPT ![i] = bm[i] + b]

\* self.bitmap[slot / 8] |= 1 << (slot & 7)
bitmap_set(bm, slot) ==
    LET i == as_index(slot) \div 8
        b == Bit(as_index(slot) % 8)
    IN  IF (bm[i] \div b) % 2 = 1 THEN bm ELSE [bm EXCEPT ![i] = bm[i] + b]

\* bitmap_unset clearing nothing (the mask applied without the negation
\* being stored).
bitmap_unset_mut(bm, slot) == bm

\* self.bitmap[slot / 8] &= !(1 << (slot & 7))
bitmap_unset(bm, slot) ==
    LET i == as_index(slot) \div 8
        b == Bit(as_index(slot) % 8)
    IN  IF (bm[i] \div b) % 2 = 1 THEN [bm EXCEPT ![i] = bm[i] - b] ELSE bm

\* ------------------------------------------------------------ construction
with_capacity(capacity) ==
    [vec_next  |-> [i \in 0..(capacity - 1) |->
                        IF i < capacity - 1 THEN i + 1 ELSE NUL],
     vec_prev  |-> [i \in 0..(capacity - 1) |-> IF i = 0 THEN NUL ELSE i - 1],
     free_head |-> 0,
     head      |-> NUL,
     tail      |-> NUL,
     len       |-> 0,
     data      |-> [i \in 0..(capacity - 1) |-> Uninit],
     bitmap    |-> [i \in 0..(((capacity + 7) \div 8) - 1) |-> 0],
     cap       |-> capacity]

\* The whole of with_capacity(capacity: usize), arithmetic checks of the dev
\* profile included.  `capacity as Slot` keeps the low SlotBits bits; the
\* loops compute `capacity - 1` in usize, `i as Slot + 1` for
\* i < capacity - 1 and `i as Slot - 1` for 1 <= i < capacity in Slot, and an
\* overflowing one panics.  Where none overflows no index is truncated, and
\* the slab built is with_capacity(capacity) above.  Allocation is taken to
\* succeed.
with_capacity_result(capacity) ==
    LET W == 2^SlotBits
        ok == /\ capacity - 1 >= 0
              /\ \A i \in 0..(capacity - 2) : (i % W) + 1 < W
              /\ \A i \in 1..(capacity - 1) : (i % W) - 1 >= 0
    IN  IF capacity % W = NUL
        THEN [tag |-> "TooLarge", ok |-> TRUE, self |-> with_capacity(0)]
        ELSE IF ok
             THEN [tag |-> "Ok", ok |-> TRUE, self |-> with_capacity(capacity)]
             ELSE [tag |-> "panic", ok |-> FALSE, self |-> with_capacity(0)]

\* Default::default(): Self::with_capacity(16).expect(..)
DefaultCapacity == 16

\* default() with half the capacity.
default_mut == with_capacity_result(DefaultCapacity \div 2)

default == with_capacity_result(DefaultCapacity)

\* ------------------------------------------------------------ O(1) queries
capacity(self) == self.cap
free(self) == capacity(self) - self.len
is_empty(self) == self.len = 0
is_full(self) == self.free_head = NUL

contains_slot(self, slot) ==
    IF as_index(slot) >= capacity(self) THEN FALSE ELSE bitmap_get(self, slot)

\* Result of get: tag "Ok" with the value, or tag "InvalidSlot".
get(self, slot) ==
    IF as_index(slot) >= capacity(self)
    THEN [tag |-> "InvalidSlot", val |-> NoArg]
    ELSE IF ~bitmap_get(self, slot)
         THEN [tag |-> "InvalidSlot", val |-> NoArg]
         ELSE [tag |-> "Ok", val |-> self.data[as_index(slot)]]

get_mut(self, slot) ==
    IF as_index(slot) >= capacity(self)
    THEN [tag |-> "InvalidSlot", val |-> NoArg]
    ELSE IF ~bitmap_get(self, slot)
         THEN [tag |-> "InvalidSlot", val |-> NoArg]
         ELSE [tag |-> "Ok", val |-> self.data[as_index(slot)]]

\* ---------------------------------------------------------------- mutators
\* Every mutator returns [self: the new field values, tag, val: the result,
\* ok: whether every debug_assert! on the path taken holds].
\* An early return of the pops that reports the Empty error kind.
Unchanged_empty(self, tag) ==
    [self |-> self, tag |-> IF tag = "None" THEN "Empty" ELSE tag,
     val |-> NoArg, ok |-> TRUE]

\* An early return taken only after the tail has been reset.
Unchanged_mut(self, tag) ==
    [self |-> [self EXCEPT !.tail = NUL], tag |-> tag, val |-> NoArg, ok |-> TRUE]

\* The early returns (Err(Full), Err(InvalidSlot), None) come before any
\* write to self.
Unchanged(self, tag) == [self |-> self, tag |-> tag, val |-> NoArg, ok |-> TRUE]

\* push_front linking the new head to the next free slot instead of the
\* old head.
push_front_mut(self, value) ==
    LET free_slot == self.free_head IN
    IF free_slot = NUL THEN Unchanged(self, "Full")
    ELSE
    LET prev == self.vec_prev[as_index(free_slot)]
        next == self.vec_next[as_index(free_slot)]
        a1 == (prev # NUL) => (self.vec_next[as_index(prev)] = free_slot)
        n1 == IF prev # NUL
              THEN [self.vec_next EXCEPT ![as_index(prev)] = next]
              ELSE self.vec_next
        a2 == (next # NUL /\ ~is_empty(self))
                  => (self.vec_prev[as_index(next)] = free_slot)
        p1 == IF next # NUL
              THEN [self.vec_prev EXCEPT ![as_index(next)] = prev]
              ELSE self.vec_prev
        p2 == IF self.head # NUL
              THEN [p1 EXCEPT ![as_index(self.head)] = free_slot]
              ELSE p1
        n2 == [n1 EXCEPT ![as_index(free_slot)] = next]
        p3 == [p2 EXCEPT ![as_index(free_slot)] = NUL]
        len1 == self.len + 1
        a3 == len1 <= capacity(self)
    IN  [self |-> [vec_next  |-> n2,
                   vec_prev  |-> p3,
                   free_head |-> next,
                   head      |-> free_slot,
                   tail      |-> IF self.head = NUL THEN free_slot ELSE self.tail,
                   len       |-> len1,
                   data      |-> [self.data EXCEPT ![as_index(free_slot)] = value],
                   bitmap    |-> bitmap_set(self.bitmap, free_slot),
                   cap       |-> self.cap],
         tag |-> "Ok", val |-> free_slot, ok |-> a1 /\ a2 /\ a3]

push_front(self, value) ==
    LET free_slot == self.free_head IN
    IF free_slot = NUL THEN Unchanged(self, "Full")
    ELSE
    LET prev == self.vec_prev[as_index(free_slot)]
        next == self.vec_next[as_index(free_slot)]
        a1 == (prev # NUL) => (self.vec_next[as_index(prev)] = free_slot)
        n1 == IF prev # NUL
              THEN [self.vec_next EXCEPT ![as_index(prev)] = next]
              ELSE self.vec_next
        a2 == (next # NUL /\ ~is_empty(self))
                  => (self.vec_prev[as_index(next)] = free_slot)
        p1 == IF next # NUL
              THEN [self.vec_prev EXCEPT ![as_index(next)] = prev]
              ELSE self.vec_prev
        p2 == IF self.head # NUL
              THEN [p1 EXCEPT ![as_index(self.head)] = free_slot]
              ELSE p1
        n2 == [n1 EXCEPT ![as_index(free_slot)] = self.head]
        p3 == [p2 EXCEPT ![as_index(free_slot)] = NUL]
        len1 == self.len + 1
        a3 == len1 <= capacity(self)
    IN  [self |-> [vec_next  |-> n2,
                   vec_prev  |-> p3,
                   free_head |-> next,
                   head      |-> free_slot,
                   tail      |-> IF self.head = NUL THEN free_slot ELSE self.tail,
                   len       |-> len1,
                   data      |-> [self.data EXCEPT ![as_index(free_slot)] = value],
                   bitmap    |-> bitmap_set(self.bitmap, free_slot),
                   cap       |-> self.cap],
         tag |-> "Ok", val |-> free_slot, ok |-> a1 /\ a2 /\ a3]

\* remove that leaves head alone when the head itself is removed.
remove_mut(self, slot) ==
    IF as_index(slot) >= capacity(self) THEN Unchanged(self, "InvalidSlot")
    ELSE IF ~bitmap_get(self, slot) THEN Unchanged(self, "InvalidSlot")
    ELSE
    LET d1 == [self.data EXCEPT ![as_index(slot)] = Uninit]
        prev == self.vec_prev[as_index(slot)]
        next == self.vec_next[as_index(slot)]
        a1 == (prev # NUL) => (self.vec_next[as_index(prev)] = slot)
        n1 == IF prev # NUL
              THEN [self.vec_next EXCEPT ![as_index(prev)] = next]
              ELSE self.vec_next
        a2 == (next # NUL /\ ~is_empty(self))
                  => (self.vec_prev[as_index(next)] = slot)
        p1 == IF next # NUL
              THEN [self.vec_prev EXCEPT ![as_index(next)] = prev]
              ELSE self.vec_prev
        tail1 == IF self.tail = slot THEN prev ELSE self.tail
        head1 == self.head
        p2 == [p1 EXCEPT ![as_index(slot)] = NUL]
        n2 == [n1 EXCEPT ![as_index(slot)] = self.free_head]
        p3 == IF self.free_head # NUL
              THEN [p2 EXCEPT ![as_index(self.free_head)] = slot]
              ELSE p2
        a3 == self.len > 0
    IN  [self |-> [vec_next  |-> n2,
                   vec_prev  |-> p3,
                   free_head |-> slot,
                   head      |-> head1,
                   tail      |-> tail1,
                   len       |-> self.len - 1,
                   data      |-> d1,
                   bitmap    |-> bitmap_unset(self.bitmap, slot),
                   cap       |-> self.cap],
         tag |-> "Ok", val |-> NoArg, ok |-> a1 /\ a2 /\ a3]

remove(self, slot) ==
    IF as_index(slot) >= capacity(self) THEN Unchanged(self, "InvalidSlot")
    ELSE IF ~bitmap_get(self, slot) THEN Unchanged(self, "InvalidSlot")
    ELSE
    LET d1 == [self.data EXCEPT ![as_index(slot)] = Uninit]
        prev == self.vec_prev[as_index(slot)]
        next == self.vec_next[as_index(slot)]
        a1 == (prev # NUL) => (self.vec_next[as_index(prev)] = slot)
        n1 == IF prev # NUL
              THEN [self.vec_next EXCEPT ![as_index(prev)] = next]
              ELSE self.vec_next
        a2 == (next # NUL /\ ~is_empty(self))
                  => (self.vec_prev[as_index(next)] = slot)
        p1 == IF next # NUL
              THEN [self.vec_prev EXCEPT ![as_index(next)] = prev]
              ELSE self.vec_prev
        tail1 == IF self.tail = slot THEN prev ELSE self.tail
        head1 == IF self.head = slot THEN next ELSE self.head
        p2 == [p1 EXCEPT ![as_index(slot)] = NUL]
        n2 == [n1 EXCEPT ![as_index(slot)] = self.free_head]
        p3 == IF self.free_head # NUL
              THEN [p2 EXCEPT ![as_index(self.free_head)] = slot]
              ELSE p2
        a3 == self.len > 0
    IN  [self |-> [vec_next  |-> n2,
                   vec_prev  |-> p3,
                   free_head |-> slot,
                   head      |-> head1,
                   tail      |-> tail1,
                   len       |-> self.len - 1,
                   data      |-> d1,
                   bitmap    |-> bitmap_unset(self.bitmap, slot),
                   cap       |-> self.cap],
         tag |-> "Ok", val |-> NoArg, ok |-> a1 /\ a2 /\ a3]

\* The unlinking of the tail that pop_back, pop_back_ref and
\* pop_back_ref_mut each spell out (lines 724-741, 774-791, 820-837).
\* pop_back that never makes the popped slot the head of the free chain.
pop_back_mut(self) ==
    LET slot == self.tail IN
    IF slot = NUL THEN Unchanged(self, "None")
    ELSE
    LET value == self.data[as_index(slot)]
        d1 == [self.data EXCEPT ![as_index(slot)] = Uninit]
        prev == self.vec_prev[as_index(slot)]
        a0 == self.vec_next[as_index(slot)] = NUL
        a1 == (prev # NUL) => (self.vec_next[as_index(prev)] = slot)
        n1 == IF prev # NUL
              THEN [self.vec_next EXCEPT ![as_index(prev)] = NUL]
              ELSE self.vec_next
        head1 == IF self.head = slot THEN NUL ELSE self.head
        p1 == [self.vec_prev EXCEPT ![as_index(slot)] = NUL]
        n2 == [n1 EXCEPT ![as_index(slot)] = self.free_head]
        p2 == IF self.free_head # NUL
              THEN [p1 EXCEPT ![as_index(self.free_head)] = slot]
              ELSE p1
        a3 == self.len > 0
    IN  [self |-> [vec_next  |-> n2,
                   vec_prev  |-> p2,
                   free_head |-> self.free_head,
                   head      |-> head1,
                   tail      |-> prev,
                   len       |-> self.len - 1,
                   data      |-> d1,
                   bitmap    |-> bitmap_unset(self.bitmap, slot),
                   cap       |-> self.cap],
         tag |-> "Some", val |-> value, ok |-> a0 /\ a1 /\ a3]

pop_back(self) ==
    LET slot == self.tail IN
    IF slot = NUL THEN Unchanged(self, "None")
    ELSE
    LET value == self.data[as_index(slot)]
        d1 == [self.data EXCEPT ![as_index(slot)] = Uninit]
        prev == self.vec_prev[as_index(slot)]
        a0 == self.vec_next[as_index(slot)] = NUL
        a1 == (prev # NUL) => (self.vec_next[as_index(prev)] = slot)
        n1 == IF prev # NUL
              THEN [self.vec_next EXCEPT ![as_index(prev)] = NUL]
              ELSE self.vec_next
        head1 == IF self.head = slot THEN NUL ELSE self.head
        p1 == [self.vec_prev EXCEPT ![as_index(slot)] = NUL]
        n2 == [n1 EXCEPT ![as_index(slot)] = self.free_head]
        p2 == IF self.free_head # NUL
              THEN [p1 EXCEPT ![as_index(self.free_head)] = slot]
              ELSE p1
        a3 == self.len > 0
    IN  [self |-> [vec_next  |-> n2,
                   vec_prev  |-> p2,
                   free_head |-> slot,
                   head      |-> head1,
                   tail      |-> prev,
                   len       |-> self.len - 1,
                   data      |-> d1,
                   bitmap    |-> bitmap_unset(self.bitmap, slot),
                   cap       |-> self.cap],
         tag |-> "Some", val |-> value, ok |-> a0 /\ a1 /\ a3]

pop_back_ref(self) ==
    LET slot == self.tail IN
    IF slot = NUL THEN Unchanged(self, "None")
    ELSE
    LET value == self.data[as_index(slot)]
        prev == self.vec_prev[as_index(slot)]
        a0 == self.vec_next[as_index(slot)] = NUL
        a1 == (prev # NUL) => (self.vec_next[as_index(prev)] = slot)
        n1 == IF prev # NUL
              THEN [self.vec_next EXCEPT ![as_index(prev)] = NUL]
              ELSE self.vec_next
        head1 == IF self.head = slot THEN NUL ELSE self.head
        p1 == [self.vec_prev EXCEPT ![as_index(slot)] = NUL]
        n2 == [n1 EXCEPT ![as_index(slot)] = self.free_head]
        p2 == IF self.free_head # NUL
              THEN [p1 EXCEPT ![as_index(self.free_head)] = slot]
              ELSE p1
        a3 == self.len > 0
    IN  [self |-> [vec_next  |-> n2,
                   vec_prev  |-> p2,
                   free_head |-> slot,
                   head      |-> head1,
                   tail      |-> prev,
                   len       |-> self.len - 1,
                   data      |-> self.data,
                   bitmap    |-> self.bitmap,
                   cap       |-> self.cap],
         tag |-> "Some", val |-> value, ok |-> a0 /\ a1 /\ a3]

pop_back_ref_mut(self) ==
    LET slot == self.tail IN
    IF slot = NUL THEN Unchanged(self, "None")
    ELSE
    LET value == self.data[as_index(slot)]
        prev == self.vec_prev[as_index(slot)]
        a0 == self.vec_next[as_index(slot)] = NUL
        a1 == (prev # NUL) => (self.vec_next[as_index(prev)] = slot)
        n1 == IF prev # NUL
              THEN [self.vec_next EXCEPT ![as_index(prev)] = NUL]
              ELSE self.vec_next
        head1 == IF self.head = slot THEN NUL ELSE self.head
        p1 == [self.vec_prev EXCEPT ![as_index(slot)] = NUL]
        n2 == [n1 EXCEPT ![as_index(slot)] = self.free_head]
        p2 == IF self.free_head # NUL
              THEN [p1 EXCEPT ![as_index(self.free_head)] = slot]
              ELSE p1
        a3 == self.len > 0
    IN  [self |-> [vec_next  |-> n2,
                   vec_prev  |-> p2,
                   free_head |-> slot,
                   head      |-> head1,
                   tail      |-> prev,
                   len       |-> self.len - 1,
                   data      |-> self.data,
                   bitmap    |-> self.bitmap,
                   cap       |-> self.cap],
         tag |-> "Some", val |-> value, ok |-> a0 /\ a1 /\ a3]

\* A write through get_mut that lands in the cell of the head.
get_mut_write_mut(self, slot, value) ==
    IF get_mut(self, slot).tag # "Ok" THEN Unchanged(self, "InvalidSlot")
    ELSE [self |-> [self EXCEPT !.data[as_index(self.head)] = value],
          tag |-> "Ok", val |-> value, ok |-> TRUE]

\* `*slab.get_mut(slot)? = value`: the assignment through the reference
\* get_mut returns drops the old value of the cell and stores the new one;
\* an Err leaves before any write.
get_mut_write(self, slot, value) ==
    IF get_mut(self, slot).tag # "Ok" THEN Unchanged(self, "InvalidSlot")
    ELSE [self |-> [self EXCEPT !.data[as_index(slot)] = value],
          tag |-> "Ok", val |-> value, ok |-> TRUE]

\* ------------------------------------------------------------- traversals
\* Slots met following `link` from `slot` until NUL.  A chain that has not
\* reached NUL after `fuel` = capacity steps repeats a slot, so the loop of
\* the source never ends: the walk is cut there and ends with NUL as a
\* marker that no real walk can produce.
RECURSIVE Walk(_, _, _)
Walk(link, slot, fuel) ==
    IF slot = NUL THEN <<>>
    ELSE IF fuel = 0 THEN <<NUL>>
    ELSE <<slot>> \o Walk(link, link[as_index(slot)], fuel - 1)

Terminates(walk) == \A i \in 1..Len(walk) : walk[i] # NUL

LiveWalk(self) == Walk(self.vec_next, self.head, self.cap)
FreeWalk(self) == Walk(self.vec_next, self.free_head, self.cap)
BackWalk(self) == Walk(self.vec_prev, self.tail, self.cap)

Range(seq) == {seq[i] : i \in 1..Len(seq)}

\* What collecting iter() yields: the values met by repeated next().
iter(self) ==
    LET w == LiveWalk(self)
    IN  [i \in 1..Len(w) |-> IF w[i] = NUL THEN NUL ELSE self.data[as_index(w[i])]]

\* SlabIterator { list, slot: Option<Slot> }: `it` is the slot field, ItNone
\* for None as iter() creates it.  next and next_back share the field.
ItNone == 0 - 1

next(self, it) ==
    LET slot == IF it = ItNone THEN self.head ELSE it IN
    IF slot = NUL THEN [tag |-> "None", val |-> NoArg, it |-> it]
    ELSE [tag |-> "Some", val |-> self.data[as_index(slot)],
          it |-> self.vec_next[as_index(slot)]]

next_back(self, it) ==
    LET slot == IF it = ItNone THEN self.tail ELSE it IN
    IF slot = NUL THEN [tag |-> "None", val |-> NoArg, it |-> it]
    ELSE [tag |-> "Some", val |-> self.data[as_index(slot)],
          it |-> self.vec_prev[as_index(slot)]]

\* ExactSizeIterator::len
iter_len(self, it) == self.len

\* The iterator after k calls of next().
RECURSIVE Take(_, _, _)
Take(self, it, k) == IF k = 0 THEN it ELSE Take(self, next(self, it).it, k - 1)

\* What iter().rev() yields: the values met by repeated next_back() on a
\* fresh iterator, cut after capacity items as Walk is.
RECURSIVE DrainBack(_, _, _)
DrainBack(self, it, fuel) ==
    LET r == next_back(self, it) IN
    IF r.tag = "None" THEN <<>>
    ELSE IF fuel = 0 THEN <<NUL>>
    ELSE <<r.val>> \o DrainBack(self, r.it, fuel - 1)

iter_rev(self) == DrainBack(self, ItNone, self.cap)

\* clear(): the drop loop over the live list, then the reset of both chains.
\* The bitmap is only touched for the slots the drop loop visits.
RECURSIVE UnsetAll(_, _)
UnsetAll(bm, slots) ==
    IF slots = <<>> THEN bm
    ELSE UnsetAll(bitmap_unset(bm, Head(slots)), Tail(slots))

clear(self) ==
    LET w == LiveWalk(self)
        fresh == with_capacity(self.cap)
    IN  [self |-> [vec_next  |-> fresh.vec_next,
                   vec_prev  |-> fresh.vec_prev,
                   free_head |-> 0,
                   head      |-> NUL,
                   tail      |-> NUL,
                   len       |-> 0,
                   data      |-> [i \in 0..(self.cap - 1) |->
                                     IF i \in Range(w) THEN Uninit ELSE self.data[i]],
                   bitmap    |-> UnsetAll(self.bitmap, w),
                   cap       |-> self.cap],
         tag |-> "Unit", val |-> NoArg, ok |-> TRUE]

\* ------------------------------------------------------------------ ghosts
\* Reading a MaybeUninit that holds no value is undefined: any value may
\* come out.
ReadData(d) == IF d = Uninit THEN Values ELSE {d}

\* The differential test (test2) drives a reference VecDeque next to the
\* slab and compares the two after every step; it ends at the first
\* comparison that fails.  Agrees is that comparison: equal length, equal
\* set of occupied slots, equal front-to-back order of slots and values.
Agrees(self, dq) ==
    /\ self.len = Len(dq)
    /\ {s \in 0..(self.cap - 1) : contains_slot(self, s)} = {dq[i][1] : i \in 1..Len(dq)}
    /\ LiveWalk(self) = [i \in 1..Len(dq) |-> dq[i][1]]
    /\ \A i \in 1..Len(dq) : get(self, dq[i][1]) = [tag |-> "Ok", val |-> dq[i][2]]

\* The reference is bounded as in test2 (expected_len <= capacity): a
\* reference that is full, or already holds the slot, is left as it is.
RefPushFront(seq, pr) ==
    IF Len(seq) >= cap \/ (\E i \in 1..Len(seq) : seq[i][1] = pr[1])
    THEN seq
    ELSE <<pr>> \o seq

\* freed[s] records how the element last pushed into slot s left the slab:
\* a successful remove(s) is always recorded, a tail removal or clear only
\* for a slot whose element had not left before.
Leave(fr, slot, how) == IF fr[slot] = "live" THEN [fr EXCEPT ![slot] = how] ELSE fr

DropLast(seq) == IF seq = <<>> THEN seq ELSE SubSeq(seq, 1, Len(seq) - 1)
DeleteSlot(seq, slot) == SelectSeq(seq, LAMBDA pr : pr[1] # slot)

Install(r) ==
    /\ vec_next' = r.self.vec_next
    /\ vec_prev' = r.self.vec_prev
    /\ free_head' = r.self.free_head
    /\ head' = r.self.head
    /\ tail' = r.self.tail
    /\ len' = r.self.len
    /\ data' = r.self.data
    /\ bitmap' = r.self.bitmap
    /\ cap' = r.self.cap

\* A call that returns installs its effect and records its result; a call
\* whose debug_assert! fails panics and leaves nothing to observe.  The
\* reference sequence is driven (dq) only from a state where the
\* differential test has not failed; after a failed comparison the test is
\* over and its reference is dropped.
Call(r, op, arg, rets, dq, fr) ==
    /\ ~panicked
    /\ UNCHANGED poolvars
    /\ IF r.ok
       THEN /\ Install(r)
            /\ \E v \in rets :
                   last' = [op |-> op, arg |-> IF r.val = NoArg /\ r.tag # "Ok"
                                               THEN NoArg ELSE arg,
                            tag |-> r.tag, val |-> v]
            /\ deque' = IF Agrees(Self, deque) THEN dq ELSE <<>>
            /\ freed' = fr
            /\ panicked' = FALSE
       ELSE /\ panicked' = TRUE
            /\ last' = [op |-> op, arg |-> NoArg, tag |-> "panic", val |-> NoArg]
            /\ UNCHANGED <<slabvars, deque, freed>>

\* Index<Slot>::index: self.data[slot.as_index()].assume_init_ref().  The
\* outcomes the call can have: the bounds check of Vec panics for an index
\* >= data.len() = capacity; below it the cell is read without looking at
\* the bitmap.
index(self, slot) ==
    IF as_index(slot) >= capacity(self)
    THEN {[tag |-> "panic", val |-> NoArg]}
    ELSE {[tag |-> "Ok", val |-> v] : v \in ReadData(self.data[as_index(slot)])}

\* ------------------------------------------------------- bulk operations
\* The inner loop of from_iter: `while let Some(old_item) = slab.pop_back()
\* { new_slab.push_front(old_item).expect(..) }`.  ok is FALSE when an
\* expect or a debug_assert! fails.
RECURSIVE migrate(_, _)
migrate(slab, new_slab) ==
    LET p == pop_back(slab) IN
    IF p.tag = "None" THEN [ok |-> TRUE, self |-> new_slab]
    ELSE LET q == push_front(new_slab, p.val) IN
         IF ~p.ok \/ ~q.ok \/ q.tag # "Ok"
         THEN [ok |-> FALSE, self |-> new_slab]
         ELSE migrate(p.self, q.self)

\* The outer loop of from_iter: `while let Some(item) = vec.pop()`, with the
\* recovery by a slab of doubled capacity when push_front fails.
RECURSIVE from_iter_loop(_, _)
from_iter_loop(slab, vec) ==
    IF vec = <<>> THEN [tag |-> "Ok", self |-> slab]
    ELSE
    LET item == vec[Len(vec)]
        rest == SubSeq(vec, 1, Len(vec) - 1)
        r == push_front(slab, item)
    IN  IF ~r.ok THEN [tag |-> "panic", self |-> slab]
        ELSE IF r.tag = "Ok" THEN from_iter_loop(r.self, rest)
        ELSE
        LET new_capacity == capacity(slab) * 2
            n == with_capacity_result(new_capacity)
        IN  IF n.tag # "Ok" THEN [tag |-> "panic", self |-> slab]
            ELSE
            LET m == migrate(slab, n.self)
                q == push_front(m.self, item)
            IN  IF ~m.ok \/ ~q.ok \/ q.tag # "Ok"
                THEN [tag |-> "panic", self |-> slab]
                ELSE from_iter_loop(q.self, rest)

\* from_iter(iter): `hint` is max_size.unwrap_or(min) of iter.size_hint(),
\* `items` what the iterator yields.  A failed expect panics and no slab is
\* built.
from_iter(items, hint) ==
    LET n == with_capacity_result(hint) IN
    IF n.tag # "Ok" THEN [tag |-> "panic", self |-> with_capacity(0)]
    ELSE LET r == from_iter_loop(n.self, items) IN
         IF r.tag = "Ok" THEN r ELSE [tag |-> "panic", self |-> with_capacity(0)]

\* extend that gives up silently at the first push_front that fails.
RECURSIVE extend_mut(_, _)
extend_mut(self, items) ==
    IF items = <<>> THEN [tag |-> "Unit", self |-> self]
    ELSE LET r == push_front(self, Head(items)) IN
         IF ~r.ok \/ r.tag # "Ok" THEN [tag |-> "Unit", self |-> self]
         ELSE extend_mut(r.self, Tail(items))

\* extend(iter): `for item in iter { self.push_front(item).expect(..) }`.
\* The items pushed before a failed expect stay pushed.
RECURSIVE extend(_, _)
extend(self, items) ==
    IF items = <<>> THEN [tag |-> "Unit", self |-> self]
    ELSE LET r == push_front(self, Head(items)) IN
         IF ~r.ok \/ r.tag # "Ok" THEN [tag |-> "panic", self |-> self]
         ELSE extend(r.self, Tail(items))

\* ----------------------------------------------------------------- actions
InitWith(n) ==
    LET s == with_capacity(n) IN
    /\ vec_next = s.vec_next
    /\ vec_prev = s.vec_prev
    /\ free_head = s.free_head
    /\ head = s.head
    /\ tail = s.tail
    /\ len = s.len
    /\ data = s.data
    /\ bitmap = s.bitmap
    /\ cap = s.cap
    /\ last = [op |-> "with_capacity", arg |-> n, tag |-> "Ok", val |-> NoArg]
    /\ deque = <<>>
    /\ freed = [i \in 0..(n - 1) |-> "never"]
    /\ panicked = FALSE
    /\ NoPool

Init == \E n \in 1..MaxCap : InitWith(n)

PushFront ==
    \E value \in Values :
        LET r == push_front(Self, value) IN
        Call(r, "push_front", value, {r.val},
             IF r.tag = "Ok" THEN RefPushFront(deque, <<r.val, value>>) ELSE deque,
             IF r.tag = "Ok" THEN [freed EXCEPT ![r.val] = "live"] ELSE freed)

Remove ==
    \E slot \in SlotArgs(cap) :
        LET r == remove(Self, slot) IN
        Call(r, "remove", slot, {r.val},
             IF r.tag = "Ok" THEN DeleteSlot(deque, slot) ELSE deque,
             IF r.tag = "Ok" THEN [freed EXCEPT ![slot] = "remove"] ELSE freed)

PopBack ==
    LET r == pop_back(Self) IN
    Call(r, "pop_back", tail,
         IF r.tag = "Some" THEN ReadData(r.val) ELSE {NoArg},
         IF r.tag = "Some" THEN DropLast(deque) ELSE deque,
         IF r.tag = "Some" THEN Leave(freed, tail, "pop_back") ELSE freed)

PopBackRef ==
    LET r == pop_back_ref(Self) IN
    Call(r, "pop_back_ref", tail,
         IF r.tag = "Some" THEN ReadData(r.val) ELSE {NoArg},
         IF r.tag = "Some" THEN DropLast(deque) ELSE deque,
         IF r.tag = "Some" THEN Leave(freed, tail, "pop_back_ref") ELSE freed)

PopBackRefMut ==
    LET r == pop_back_ref_mut(Self) IN
    Call(r, "pop_back_ref_mut", tail,
         IF r.tag = "Some" THEN ReadData(r.val) ELSE {NoArg},
         IF r.tag = "Some" THEN DropLast(deque) ELSE deque,
         IF r.tag = "Some" THEN Leave(freed, tail, "pop_back_ref_mut") ELSE freed)

\* clear() returns only when its drop loop reaches NUL.
Clear ==
    /\ Terminates(LiveWalk(Self))
    /\ LET r == clear(Self) IN
       Call(r, "clear", NoArg, {r.val}, <<>>,
            [i \in 0..(cap - 1) |->
                IF i \in Range(LiveWalk(Self)) THEN Leave(freed, i, "clear")[i]
                ELSE freed[i]])

\* The operations of the fixed-capacity core.
Next == PushFront \/ Remove \/ PopBack \/ Clear

Spec == Init /\ [][Next]_vars

\* The core plus the reference-returning tail removals.
NextRef == PushFront \/ Remove \/ PopBack \/ PopBackRef \/ PopBackRefMut \/ Clear

InitRef == \E n \in 1..MaxCapRef : InitWith(n)

SpecRef == InitRef /\ [][NextRef]_vars

\* Construction from any requested capacity, the values around the sentinel
\* and around the width of Slot included.  A request that fails leaves no
\* slab: cap = 0 and nothing can be called.
Requests == 0..(2^(SlotBits + 1) - 1)

InitCap ==
    \E n \in Requests :
        LET r == with_capacity_result(n) IN
        /\ vec_next = r.self.vec_next
        /\ vec_prev = r.self.vec_prev
        /\ free_head = r.self.free_head
        /\ head = r.self.head
        /\ tail = r.self.tail
        /\ len = r.self.len
        /\ data = r.self.data
        /\ bitmap = r.self.bitmap
        /\ cap = r.self.cap
        /\ last = [op |-> "with_capacity", arg |-> n, tag |-> r.tag, val |-> NoArg]
        /\ deque = <<>>
        /\ freed = [i \in 0..(r.self.cap - 1) |-> "never"]
        /\ panicked = ~r.ok
        /\ NoPool

\* What is then done with the slab: at most MaxCap elements are held at a
\* time.
NextCap ==
    \/ cap > 0 /\ len < MaxCap /\ PushFront
    \/ cap > 0 /\ PopBack

SpecCap == InitCap /\ [][NextCap]_vars

\* Construction by Default::default().  The expect panics unless
\* with_capacity returned Ok.
InitDefault ==
    LET r == default IN
    /\ vec_next = r.self.vec_next
    /\ vec_prev = r.self.vec_prev
    /\ free_head = r.self.free_head
    /\ head = r.self.head
    /\ tail = r.self.tail
    /\ len = r.self.len
    /\ data = r.self.data
    /\ bitmap = r.self.bitmap
    /\ cap = r.self.cap
    /\ last = [op |-> "default", arg |-> NoArg,
               tag |-> IF r.tag = "Ok" THEN "Ok" ELSE "panic", val |-> NoArg]
    /\ deque = <<>>
    /\ freed = [i \in 0..(r.self.cap - 1) |-> "never"]
    /\ panicked = (r.tag # "Ok")
    /\ NoPool

SpecDefault == InitDefault /\ [][NextCap]_vars

\* The core plus writes through get_mut, as the object pool and the doc
\* example of get_mut make them.  The reference sequence takes the new
\* value of the slot.
GetMutWrite ==
    \E slot \in SlotArgs(cap), value \in Values :
        LET r == get_mut_write(Self, slot, value) IN
        Call(r, "get_mut", slot, {r.val},
             IF r.tag = "Ok"
             THEN [i \in 1..Len(deque) |->
                      IF deque[i][1] = slot THEN <<slot, value>> ELSE deque[i]]
             ELSE deque,
             freed)

NextMut == PushFront \/ Remove \/ PopBack \/ Clear \/ GetMutWrite

SpecMut == Init /\ [][NextMut]_vars

\* Bulk construction and extension.  The slab is built by from_iter from a
\* sequence of at most MaxItems values and a size hint that may be exact,
\* too small (0 included) or too large; a from_iter that panics leaves no
\* slab (cap = 0, panicked).
Items == UNION {[1..n -> Values] : n \in 0..MaxItems}
Hints == 0..(MaxItems + 1)

InitBulk ==
    \E items \in Items, hint \in Hints :
        LET r == from_iter(items, hint) IN
        /\ vec_next = r.self.vec_next
        /\ vec_prev = r.self.vec_prev
        /\ free_head = r.self.free_head
        /\ head = r.self.head
        /\ tail = r.self.tail
        /\ len = r.self.len
        /\ data = r.self.data
        /\ bitmap = r.self.bitmap
        /\ cap = r.self.cap
        /\ last = [op |-> "from_iter", arg |-> hint, tag |-> r.tag, val |-> NoArg,
                   items |-> items]
        /\ deque = <<>>
        /\ freed = [i \in 0..(r.self.cap - 1) |->
                        IF i \in Range(LiveWalk(r.self)) THEN "live" ELSE "never"]
        /\ panicked = (r.tag = "panic")
        /\ NoPool

\* extend(items) on the slab.  The reference sequence is not driven through
\* bulk operations.
Extend ==
    \E items \in Items :
        LET r == extend(Self, items) IN
        /\ ~panicked
        /\ Install(r)
        /\ last' = [op |-> "extend", arg |-> Len(items), tag |-> r.tag, val |-> NoArg]
        /\ deque' = <<>>
        /\ freed' = [i \in 0..(cap - 1) |->
                        IF i \in Range(LiveWalk(r.self)) /\ i \notin Range(LiveWalk(Self))
                        THEN "live" ELSE freed[i]]
        /\ panicked' = (r.tag = "panic")
        /\ UNCHANGED poolvars

NextBulk == Extend

SpecBulk == InitBulk /\ [][NextBulk]_vars

\* ------------------------------------------------------------ object pool
\* examples/object_pool.rs: ObjectPool { slab, free_slots }.  A pool is
\* [slab, free_slots]; each operation returns the pool after the call, its
\* tag and value, and ok = FALSE where an unwrap or an arithmetic check of
\* the dev profile panics.
DefaultValue == 1

\* acquire(): the front of free_slots if there is one, else a new object
\* pushed into the slab; `?` passes Err(Full) on.
acquire(pool) ==
    IF pool.free_slots # <<>>
    THEN LET slot == Head(pool.free_slots) IN
         [pool |-> [slab |-> pool.slab, free_slots |-> Tail(pool.free_slots)],
          tag |-> "Ok", val |-> slot,
          ok |-> get_mut(pool.slab, slot).tag = "Ok"]
    ELSE LET r == push_front(pool.slab, DefaultValue) IN
         IF r.tag # "Ok"
         THEN [pool |-> pool, tag |-> r.tag, val |-> NoArg, ok |-> r.ok]
         ELSE [pool |-> [slab |-> r.self, free_slots |-> pool.free_slots],
               tag |-> "Ok", val |-> r.val,
               ok |-> r.ok /\ get_mut(r.self, r.val).tag = "Ok"]

\* release(slot): queued for reuse whenever slab.get(slot) is Ok.
release(pool, slot) ==
    IF get(pool.slab, slot).tag = "Ok"
    THEN [pool EXCEPT !.free_slots = Append(pool.free_slots, slot)]
    ELSE pool

\* in_use(): slab.len() - free_slots.len() in usize; the subtraction panics
\* on overflow in the dev profile.
in_use(pool) ==
    IF pool.slab.len - Len(pool.free_slots) < 0
    THEN [tag |-> "panic", val |-> NoArg]
    ELSE [tag |-> "Ok", val |-> pool.slab.len - Len(pool.free_slots)]

\* reset(): free_slots.clear(); slab.clear().
reset(pool) == [slab |-> clear(pool.slab).self, free_slots |-> <<>>]

Pool == [slab |-> Self, free_slots |-> free_slots]

\* The ghosts of the slab's own tests are not driven through the pool.
Acquire ==
    LET r == acquire(Pool) IN
    /\ ~panicked
    /\ IF r.ok
       THEN /\ Install([self |-> r.pool.slab])
            /\ free_slots' = r.pool.free_slots
            /\ acquired' = IF r.tag = "Ok" THEN acquired \cup {r.val} ELSE acquired
            /\ last' = [op |-> "acquire", arg |-> NoArg, tag |-> r.tag, val |-> r.val]
            /\ panicked' = FALSE
       ELSE /\ panicked' = TRUE
            /\ last' = [op |-> "acquire", arg |-> NoArg, tag |-> "panic", val |-> NoArg]
            /\ UNCHANGED <<slabvars, poolvars>>
    /\ UNCHANGED <<deque, freed>>

\* release with any slot argument.  free_slots is a VecDeque that grows on
\* demand; the runs explored queue at most capacity + 1 slots.
Release ==
    \E slot \in SlotArgs(cap) :
        LET q == release(Pool, slot) IN
        /\ ~panicked
        /\ Len(free_slots) <= cap
        /\ free_slots' = q.free_slots
        /\ acquired' = IF q # Pool THEN acquired \ {slot} ELSE acquired
        /\ last' = [op |-> "release", arg |-> slot,
                    tag |-> IF q # Pool THEN "Queued" ELSE "Ignored", val |-> NoArg]
        /\ UNCHANGED <<slabvars, deque, freed, panicked>>

Reset ==
    /\ ~panicked
    /\ Terminates(LiveWalk(Self))
    /\ LET q == reset(Pool) IN
       /\ Install([self |-> q.slab])
       /\ free_slots' = q.free_slots
    /\ acquired' = {}
    /\ last' = [op |-> "reset", arg |-> NoArg, tag |-> "Unit", val |-> NoArg]
    /\ UNCHANGED <<deque, freed, panicked>>

NextPool == Acquire \/ Release \/ Reset

\* ObjectPool::new(capacity)
SpecPool == Init /\ [][NextPool]_vars

\* ------------------------------------------------------------- type check
TypeOK ==
    /\ cap \in 1..(MaxCap + MaxCapRef)
    /\ vec_next \in [0..(cap - 1) -> (0..(cap - 1)) \cup {NUL}]
    /\ vec_prev \in [0..(cap - 1) -> (0..(cap - 1)) \cup {NUL}]
    /\ free_head \in (0..(cap - 1)) \cup {NUL}
    /\ head \in (0..(cap - 1)) \cup {NUL}
    /\ tail \in (0..(cap - 1)) \cup {NUL}
    /\ len \in Nat
    /\ data \in [0..(cap - 1) -> Values \cup {Uninit}]

\* ------------------------------------------------------------ vocabulary
Live == Range(LiveWalk(Self))
Free == Range(FreeWalk(Self))
InRange == 0..(cap - 1)

Invalid(res) == res.tag = "InvalidSlot"
OkWith(v) == [tag |-> "Ok", val |-> v]
TailPops == {"pop_back", "pop_back_ref", "pop_back_ref_mut"}

RefSlots == [i \in 1..Len(deque) |-> deque[i][1]]
RefValues == [i \in 1..Len(deque) |-> deque[i][2]]
Without(seq, slot) == SelectSeq(seq, LAMBDA x : x # slot)
Distinct(seq) == Cardinality(Range(seq)) = Len(seq)

\* ------------------------------------------------------------------ C1
\* C1: after construction and any sequence of push_front, remove (any slot),
\* pop_back and clear, every slot of [0, capacity) is on exactly one of the
\* live list (next links from head) and the free chain (next links from
\* free_head), len is the number of live slots, and
\* len + |free chain| = capacity.
Thm_C1 ==
    /\ Terminates(LiveWalk(Self)) /\ Terminates(FreeWalk(Self))
    /\ \A s \in InRange : (s \in Live) # (s \in Free)
    /\ Distinct(LiveWalk(Self)) /\ Distinct(FreeWalk(Self))
    /\ len = Cardinality(Live)
    /\ len + Len(FreeWalk(Self)) = cap

Wit_C1 ==
    /\ last.op = "remove" /\ last.tag = "InvalidSlot"
    /\ len = 2 /\ cap = 3 /\ free_head = 0

\* ------------------------------------------------------------------ C2
\* C2: with the bitmap enabled, after every public operation (push_front,
\* remove, pop_back, pop_back_ref, pop_back_ref_mut, clear) the bitmap bit
\* of slot s, what contains_slot(s) reports, is set iff s is on the live
\* list.
Cex_C2 == \A s \in InRange : contains_slot(Self, s) <=> (s \in Live)

\* ------------------------------------------------------------------ C3
\* C3: after a successful remove(slot), get(slot) is Err(InvalidSlot),
\* contains_slot(slot) is false and a second remove(slot) is
\* Err(InvalidSlot), in every later state until push_front returns that
\* slot again; get(slot) is then Ok with the newly pushed value.
Thm_C3 ==
    [][ /\ \A s \in InRange :
              freed'[s] = "remove" =>
                  /\ Invalid(get(Self', s))
                  /\ ~contains_slot(Self', s)
                  /\ Invalid(remove(Self', s))
        /\ \A s \in InRange :
              (freed[s] = "remove" /\ freed'[s] # "remove") =>
                  /\ last'.op = "push_front" /\ last'.tag = "Ok"
                  /\ last'.val = s
                  /\ get(Self', s) = OkWith(last'.arg) ]_vars

Wit_C3 ==
    /\ cap = 2 /\ freed[0] = "remove" /\ Invalid(get(Self, 0))
    /\ last.op = "push_front" /\ last.tag = "Ok" /\ last.val = 1

\* ------------------------------------------------------------------ C4
\* C4: after pop_back, pop_back_ref or pop_back_ref_mut removed the element
\* of slot s, get(s), get_mut(s) and remove(s) are Err(InvalidSlot) until a
\* later push_front hands s out again.
Cex_C4 ==
    \A s \in InRange :
        freed[s] \in TailPops =>
            /\ Invalid(get(Self, s))
            /\ Invalid(get_mut(Self, s))
            /\ Invalid(remove(Self, s))

\* ------------------------------------------------------------------ C5
\* C5: when push_front(value) returns Ok(slot), immediately afterwards
\* get(slot) = Ok(value), slot is the head (iter() yields value first) and
\* len is one larger than before the call.
Thm_C5 ==
    [][ (last'.op = "push_front" /\ last'.tag = "Ok") =>
            /\ get(Self', last'.val) = OkWith(last'.arg)
            /\ head' = last'.val
            /\ iter(Self') # <<>> /\ Head(iter(Self')) = last'.arg
            /\ len' = len + 1 ]_vars

Wit_C5 ==
    /\ last.op = "push_front" /\ last.tag = "Ok"
    /\ len = 2 /\ last.val = 0 /\ tail = 1

\* ------------------------------------------------------------------ C6
\* C6: push_front returns Err(Full) iff len = capacity, iff free_head is the
\* sentinel, and succeeds whenever len < capacity.
Cex_C6 ==
    [][ last'.op = "push_front" =>
            /\ (last'.tag = "Full") <=> (len = cap)
            /\ (last'.tag = "Full") <=> (free_head = NUL)
            /\ (len < cap) => (last'.tag = "Ok") ]_vars


\* ------------------------------------------------------------------ C7
\* C7: on a non-empty slab pop_back removes and returns the value of the
\* live element pushed earliest (the tail, the back of the reference
\* sequence) and decrements len; on an empty slab it returns None.
Cex_C7 ==
    [][ last'.op = "pop_back" =>
            /\ (len # 0) =>
                  /\ last'.tag = "Some"
                  /\ last'.arg = tail
                  /\ Agrees(Self, deque) =>
                        /\ last'.val = deque[Len(deque)][2]
                        /\ last'.arg = deque[Len(deque)][1]
                  /\ last'.arg \notin Live'
                  /\ len' = len - 1
            /\ (len = 0) => (last'.tag = "None" /\ len' = 0) ]_vars


\* ------------------------------------------------------------------ C8
\* C8: after any sequence of push_front, remove and pop_back, a forward
\* traversal of iter() yields exactly the len live values, each once, head
\* to tail, most recently pushed first, and then None.
Thm_C8 ==
    /\ Terminates(LiveWalk(Self))
    /\ Distinct(LiveWalk(Self))
    /\ Len(iter(Self)) = len
    /\ iter(Self) = RefValues

Wit_C8 == len = 3 /\ last.op = "push_front" /\ iter(Self) = <<2, 1, 1>>

\* ------------------------------------------------------------------ C9
\* C9: a successful remove(slot) deletes exactly the element named by slot
\* (head, tail or interior): the head-to-tail order of the remaining
\* elements is unchanged, len decreases by one, and removing the sole
\* element leaves head = tail = NUL.
Cex_C9 ==
    [][ (last'.op = "remove" /\ last'.tag = "Ok") =>
            /\ last'.arg \in Live
            /\ LiveWalk(Self') = Without(LiveWalk(Self), last'.arg)
            /\ \A s \in Live' : data'[s] = data[s]
            /\ len' = len - 1
            /\ (len = 1) => (head' = NUL /\ tail' = NUL /\ len' = 0) ]_vars


\* ----------------------------------------------------------------- C10
\* C10: run side by side with a reference double-ended sequence of
\* (slot, value) pairs, the slab agrees with it after every push_front,
\* pop_back and remove: equal length, equal set of occupied slots, equal
\* front-to-back order.
Thm_C10 == Agrees(Self, deque)

Wit_C10 ==
    /\ Len(deque) = 2 /\ cap = 3
    /\ last.op = "remove" /\ last.tag = "Ok"
    /\ deque[1][1] = 0

\* ----------------------------------------------------------------- C11
\* C11: a slot returned by push_front(v) keeps answering get(slot) = Ok(v)
\* through every later push_front, pop_back and remove that does not remove
\* or pop its element, and push_front never returns a slot whose element is
\* still live.
Thm_C11 ==
    [][ /\ (last'.op = "push_front" /\ last'.tag = "Ok") =>
              /\ freed[last'.val] # "live"
              /\ last'.val \notin Live
              /\ get(Self', last'.val) = OkWith(last'.arg)
        /\ \A s \in InRange :
              (freed[s] = "live" /\ freed'[s] = "live") =>
                  /\ get(Self, s).tag = "Ok"
                  /\ get(Self', s) = get(Self, s) ]_vars

Wit_C11 ==
    /\ last.op = "remove" /\ last.tag = "Ok" /\ last.arg = 1
    /\ cap = 3 /\ len = 2 /\ freed[0] = "live" /\ freed[2] = "live"
    /\ get(Self, 0) = OkWith(2)

\* ----------------------------------------------------------------- C12
\* C12: get, get_mut and remove return Err(InvalidSlot), and contains_slot
\* returns false, for every slot >= capacity (the sentinel included) and
\* for every slot in range that is not currently live.
Cex_C12 ==
    \A s \in SlotArgs(cap) :
        (s >= cap \/ s \notin Live) =>
            /\ Invalid(get(Self, s))
            /\ Invalid(get_mut(Self, s))
            /\ Invalid(remove(Self, s))
            /\ ~contains_slot(Self, s)

\* ----------------------------------------------------------------- C13
\* C13: a mutator that fails is atomic: when push_front returns Err(Full),
\* remove returns Err(InvalidSlot), or pop_back / pop_back_ref /
\* pop_back_ref_mut returns None, links, head, tail, free_head, len, stored
\* values and bitmap are exactly what they were before the call.
Failed == {"Full", "InvalidSlot", "None"}

Thm_C13 ==
    [][ (last'.tag \in Failed) =>
            /\ vec_next' = vec_next /\ vec_prev' = vec_prev
            /\ head' = head /\ tail' = tail /\ free_head' = free_head
            /\ len' = len /\ data' = data /\ bitmap' = bitmap
            /\ cap' = cap ]_vars

Wit_C13 ==
    /\ last.op = "push_front" /\ last.tag = "Full"
    /\ cap = 2 /\ len = 2 /\ tail = 0 /\ head = 1

\* ----------------------------------------------------------------- C14
\* C14: with_capacity(capacity) returns Err(TooLarge) for every requested
\* capacity that equals or exceeds the sentinel 2^SlotBits - 1, also where
\* the capacity truncated to SlotBits bits is not the sentinel, so that no
\* constructed slab has a slot index equal to the sentinel.
Cex_C14 ==
    /\ (last.op = "with_capacity" /\ last.arg >= NUL) => last.tag = "TooLarge"
    /\ \A s \in 0..(cap - 1) : s # NUL

\* ----------------------------------------------------------------- C15
\* C15: for every capacity n strictly below the sentinel, n = 0 included,
\* with_capacity(n) returns Ok with capacity() = n, len() = 0, is_empty(),
\* head = tail = sentinel, the free chain 0 -> 1 -> ... -> n-1 -> sentinel
\* and every bitmap bit clear.
Cex_C15 ==
    (last.op = "with_capacity" /\ last.arg < NUL) =>
        /\ last.tag = "Ok"
        /\ capacity(Self) = last.arg
        /\ len = 0 /\ is_empty(Self)
        /\ head = NUL /\ tail = NUL
        /\ FreeWalk(Self) = [i \in 1..last.arg |-> i - 1]
        /\ \A s \in 0..(last.arg - 1) : ~bitmap_get(Self, s)

\* ----------------------------------------------------------------- C16
\* C16: after every operation the O(1) queries are consistent: capacity()
\* never changes, len() + free() = capacity(), is_empty() iff len() = 0,
\* is_full() iff len() = capacity() iff free() = 0; a push_front that
\* returns Err implies is_full() and free() = 0, and a pop_back that returns
\* None implies is_empty() and free() = capacity().
Consistent(self) ==
    /\ self.len + free(self) = capacity(self)
    /\ is_empty(self) <=> (self.len = 0)
    /\ is_full(self) <=> (self.len = capacity(self))
    /\ is_full(self) <=> (free(self) = 0)

Cex_C16 ==
    /\ [](Consistent(Self))
    /\ [][ /\ capacity(Self') = capacity(Self)
           /\ (last'.op = "push_front" /\ last'.tag = "Full") =>
                  (is_full(Self') /\ free(Self') = 0)
           /\ (last'.op = "pop_back" /\ last'.tag = "None") =>
                  (is_empty(Self') /\ free(Self') = capacity(Self')) ]_vars

\* ----------------------------------------------------------------- C17
\* C17: from any reachable state clear() returns and leaves is_empty() true,
\* len() = 0, is_full() false and capacity() unchanged; capacity() calls of
\* push_front made next all succeed, get(slot) is Ok(value) for each slot
\* they return, and is_full() is true afterwards.
\* Refill: k more calls of push_front from `self` succeed, the values pushed
\* cycling through Values from v; `pushed` holds the <<slot, value>> pairs
\* returned so far.
RECURSIVE Refill(_, _, _, _)
Refill(self, k, v, pushed) ==
    IF k = 0
    THEN /\ is_full(self)
         /\ \A i \in 1..Len(pushed) : get(self, pushed[i][1]) = OkWith(pushed[i][2])
    ELSE LET r == push_front(self, v) IN
         /\ r.ok /\ r.tag = "Ok"
         /\ get(r.self, r.val) = OkWith(v)
         /\ Refill(r.self, k - 1, (v % MaxVal) + 1, Append(pushed, <<r.val, v>>))

Cex_C17 ==
    /\ [](~panicked => Terminates(LiveWalk(Self)))
    /\ [][ last'.op = "clear" =>
              /\ is_empty(Self') /\ len' = 0 /\ ~is_full(Self')
              /\ capacity(Self') = capacity(Self)
              /\ \A v \in Values : Refill(Self', capacity(Self'), v, <<>>) ]_vars

\* ----------------------------------------------------------------- C18
\* C18: slab[slot] yields the value get(slot) yields when slot is live, and
\* for every slot that is not live, out of range or in range but
\* unoccupied, it aborts instead of yielding a value.
Cex_C18 ==
    \A s \in SlotArgs(cap) :
        /\ (s < cap /\ s \in Live) => index(Self, s) = {get(Self, s)}
        /\ (s >= cap \/ s \notin Live) =>
               index(Self, s) = {[tag |-> "panic", val |-> NoArg]}

\* ----------------------------------------------------------------- C19
\* C19: a reverse traversal of iter() (next_back only) yields exactly the
\* live values tail to head, oldest first, the exact reverse of the forward
\* traversal of the same state, and then None; a traversal starts afresh
\* from the slab (first the tail, resp. the head).
Reverse(seq) == [i \in 1..Len(seq) |-> seq[Len(seq) + 1 - i]]

Cex_C19 ==
    /\ Terminates(BackWalk(Self))
    /\ Len(iter_rev(Self)) = len
    /\ iter_rev(Self) = Reverse(iter(Self))
    /\ BackWalk(Self) = Reverse(LiveWalk(Self))
    /\ (len > 0) => /\ next_back(Self, ItNone).val = data[tail]
                    /\ next(Self, ItNone).val = data[head]

\* ----------------------------------------------------------------- C20
\* C20: the iterator is exactly sized: the remaining length it reports is
\* the number of elements it will still yield, slab.len() at creation and
\* slab.len() - k after k elements have been taken, 0 exactly when it is
\* exhausted.
Cex_C20 ==
    \A k \in 0..len :
        LET it == Take(Self, ItNone, k) IN
        /\ iter_len(Self, it) = len - k
        /\ (iter_len(Self, it) = 0) <=> (next(Self, it).tag = "None")

\* ----------------------------------------------------------------- C21
\* C21: from_iter over a non-empty finite sequence yields a slab whose len
\* is the number of elements and whose iter() yields the elements in the
\* order of the sequence, for every size hint the sequence may report, an
\* under-estimate included (the builder then doubles the capacity and
\* migrates the elements with pop_back / push_front).
Cex_C21 ==
    (last.op = "from_iter" /\ last.items # <<>>) =>
        /\ last.tag = "Ok"
        /\ len = Len(last.items)
        /\ iter(Self) = last.items

\* ----------------------------------------------------------------- C22
\* C22: a slab built by from_iter has a capacity equal to the number of
\* elements of the sequence, for every finite sequence, the empty one
\* included.
Cex_C22 ==
    (last.op = "from_iter") =>
        /\ last.tag = "Ok"
        /\ capacity(Self) = Len(last.items)

\* ----------------------------------------------------------------- C23
\* C23: extend(items) pushes the items one by one with push_front: when
\* the number k of items is at most free(), len grows by exactly k and
\* iter() then yields the items in reverse order followed by the previous
\* contents in their previous order; when k exceeds free() the call panics
\* instead of returning an error.
ExtendedBy(before, items, r) ==
    LET k == Len(items) IN
    /\ (k <= free(before)) =>
           /\ r.tag = "Unit"
           /\ r.self.len = before.len + k
           /\ iter(r.self) = [i \in 1..k |-> items[k + 1 - i]] \o iter(before)
    /\ (k > free(before)) => r.tag = "panic"

Thm_C23 ==
    /\ []((~panicked /\ cap > 0) =>
             \A items \in Items : ExtendedBy(Self, items, extend(Self, items)))
    /\ [][ last'.op = "extend" =>
              \E items \in Items :
                  /\ Len(items) = last'.arg
                  /\ ExtendedBy(Self, items, [tag |-> last'.tag, self |-> Self']) ]_vars

Wit_C23 ==
    /\ last.op = "extend" /\ last.tag = "Unit" /\ last.arg = 2
    /\ cap = 4 /\ iter(Self) = <<2, 1, 1, 2>>

Thm_C25 ==
    /\ capacity(Self) = 16
    /\ (last.op = "default") =>
           /\ last.tag = "Ok" /\ ~panicked
           /\ len = 0 /\ is_empty(Self)
           /\ iter(Self) = <<>>

Wit_C25 == last.op = "default" /\ last.tag = "Ok" /\ capacity(Self) = 16 /\ free(Self) = 16

\* ----------------------------------------------------------------- C26
\* C26: after any sequence of push_front, remove, pop_back and clear the
\* live list is a valid doubly linked chain: head's prev and tail's next are
\* the sentinel, next and prev of live slots point back at each other,
\* following next from head visits exactly len slots and ends at tail, and
\* head = sentinel iff tail = sentinel iff len = 0.
Thm_C26 ==
    LET w == LiveWalk(Self) IN
    /\ (head # NUL) => vec_prev[head] = NUL
    /\ (tail # NUL) => vec_next[tail] = NUL
    /\ \A s \in Live :
          /\ (vec_next[s] # NUL) => vec_prev[vec_next[s]] = s
          /\ (vec_prev[s] # NUL) => vec_next[vec_prev[s]] = s
    /\ Terminates(w) /\ Len(w) = len
    /\ (w # <<>>) => w[Len(w)] = tail
    /\ (head = NUL) <=> (tail = NUL)
    /\ (head = NUL) <=> (len = 0)

Wit_C26 ==
    /\ last.op = "remove" /\ last.tag = "Ok" /\ last.arg = 1
    /\ cap = 3 /\ len = 2 /\ head = 2 /\ tail = 0
    /\ vec_next[2] = 0 /\ vec_prev[0] = 2

\* ----------------------------------------------------------------- C27
\* C27: after any sequence of push_front, remove, pop_back and clear the
\* free list is a valid acyclic singly linked chain: following next from
\* free_head reaches the sentinel after exactly capacity - len steps,
\* visiting every slot that is not live exactly once and no live slot.
Thm_C27 ==
    LET f == FreeWalk(Self) IN
    /\ Terminates(f)
    /\ Len(f) = capacity(Self) - len
    /\ Cardinality(Range(f)) = Len(f)
    /\ Range(f) = InRange \ Live

Wit_C27 ==
    /\ last.op = "pop_back" /\ last.tag = "Some"
    /\ cap = 3 /\ len = 1 /\ FreeWalk(Self) = <<0, 1>> /\ head = 2

\* ----------------------------------------------------------------- C28
\* C28: slot life cycle: each successful push_front moves exactly one slot
\* from free to live, each successful remove / pop_back exactly one slot
\* from live to free, and no other slot changes status; a slot alternates
\* Free -> Live -> Free, and the cycle repeats without bound: a slot just
\* freed is handed out again, so the number of successful insertions is
\* not limited by the capacity.
LiveOf(self) == Range(LiveWalk(self))
FreeOf(self) == Range(FreeWalk(self))

Moves ==
    /\ (last'.op = "push_front" /\ last'.tag = "Ok") =>
           /\ last'.val \in FreeOf(Self) /\ last'.val \notin LiveOf(Self)
           /\ LiveOf(Self') = LiveOf(Self) \cup {last'.val}
           /\ FreeOf(Self') = FreeOf(Self) \ {last'.val}
    /\ (last'.op \in {"remove", "pop_back"} /\ last'.tag \in {"Ok", "Some"}) =>
           /\ last'.arg \in LiveOf(Self) /\ last'.arg \notin FreeOf(Self)
           /\ LiveOf(Self') = LiveOf(Self) \ {last'.arg}
           /\ FreeOf(Self') = FreeOf(Self) \cup {last'.arg}
    /\ (last'.tag \in Failed) =>
           (LiveOf(Self') = LiveOf(Self) /\ FreeOf(Self') = FreeOf(Self))

Reusable ==
    (~panicked /\ len > 0) =>
        LET p == pop_back(Self) IN
        /\ p.ok /\ p.tag = "Some"
        /\ \A v \in Values :
              LET q == push_front(p.self, v) IN
              q.ok /\ q.tag = "Ok" /\ q.val = tail

Thm_C28 == [](Reusable) /\ [][Moves]_vars

Wit_C28 ==
    /\ last.op = "push_front" /\ last.tag = "Ok" /\ last.val = 0
    /\ cap = 2 /\ len = 2 /\ head = 0 /\ tail = 1

\* ----------------------------------------------------------------- C29
\* C29: pop_back_ref and pop_back_ref_mut have the effect of pop_back on
\* the list: from the same state they expose the same tail value and leave
\* the same head, tail, next / prev links, free_head, free chain and len.
ListPart(self) ==
    <<self.vec_next, self.vec_prev, self.head, self.tail, self.free_head,
      FreeWalk(self), self.len>>

SameOnList(a, b) ==
    /\ a.tag = b.tag /\ a.val = b.val /\ a.ok = b.ok
    /\ ListPart(a.self) = ListPart(b.self)

Thm_C29 ==
    /\ [](/\ SameOnList(pop_back_ref(Self), pop_back(Self))
          /\ SameOnList(pop_back_ref_mut(Self), pop_back(Self)))
    /\ [][ (last'.op \in {"pop_back_ref", "pop_back_ref_mut"} /\ last'.tag # "panic") =>
              LET p == pop_back(Self) IN
              /\ last'.tag = p.tag
              /\ (p.tag = "Some") => last'.val \in ReadData(p.val)
              /\ ListPart(Self') = ListPart(p.self) ]_vars

Wit_C29 ==
    /\ last.op = "pop_back_ref_mut" /\ last.tag = "Some" /\ last.val = 2
    /\ cap = 2 /\ len = 1 /\ free_head = 0 /\ head = 1 /\ tail = 1

\* ----------------------------------------------------------------- C30
\* C30: from any state reachable by the public operations, pop_back_ref
\* and pop_back_ref_mut included, clear() produces exactly the state of a
\* fresh construction of the same capacity: free_head = 0, free chain
\* 0 -> 1 -> ... -> capacity-1 -> sentinel, head = tail = sentinel, len = 0,
\* no stored value, every bitmap bit clear.
Cex_C30 ==
    [][ last'.op = "clear" =>
            /\ Self' = with_capacity(capacity(Self))
            /\ FreeWalk(Self') = [i \in 1..capacity(Self) |-> i - 1]
            /\ \A s \in InRange : ~contains_slot(Self', s) ]_vars

\* ----------------------------------------------------------------- C31
\* C31: slots are handed out last-freed-first.  The free chain is a stack:
\* it starts as 0, 1, ..., capacity-1 on a fresh and on a just-cleared slab
\* (so successive calls of push_front return 0, 1, 2, ...), a successful
\* remove / pop_back puts its slot on top, and push_front returns the top;
\* the slots never used so far lie at the bottom in ascending order, so a
\* never-used slot is returned only when no freed slot is left, and then
\* the lowest one.
\* PushSlots: the results of k successive calls of push_front from `self`.
RECURSIVE PushSlots(_, _)
PushSlots(self, k) ==
    IF k = 0 THEN <<>>
    ELSE LET r == push_front(self, 1) IN
         <<[tag |-> r.tag, val |-> r.val]>> \o PushSlots(r.self, k - 1)

NeverUsed == {s \in InRange : freed[s] = "never"}

Thm_C31 ==
    /\ [](/\ (last.op \in {"with_capacity", "clear"}) =>
                 PushSlots(Self, cap) = [i \in 1..cap |-> OkWith(i - 1)]
          /\ LET fw == FreeWalk(Self)
                 k == Cardinality(NeverUsed)
             IN  /\ k <= Len(fw)
                 /\ NeverUsed = (cap - k)..(cap - 1)
                 /\ SubSeq(fw, Len(fw) - k + 1, Len(fw)) = [i \in 1..k |-> cap - k + i - 1])
    /\ [][ /\ (last'.op = "push_front" /\ last'.tag = "Ok") =>
                  /\ last'.val = Head(FreeWalk(Self))
                  /\ FreeWalk(Self') = Tail(FreeWalk(Self))
                  /\ (last.op \in {"remove", "pop_back"} /\ last.tag \in {"Ok", "Some"})
                         => last'.val = last.arg
           /\ (last'.op \in {"remove", "pop_back"} /\ last'.tag \in {"Ok", "Some"}) =>
                  FreeWalk(Self') = <<last'.arg>> \o FreeWalk(Self) ]_vars

Wit_C31 ==
    /\ last.op = "push_front" /\ last.tag = "Ok" /\ last.val = 1
    /\ cap = 3 /\ len = 3 /\ head = 1 /\ vec_next[1] = 0 /\ vec_next[0] = 2
    /\ freed = [i \in 0..2 |-> "live"]

\* ----------------------------------------------------------------- C32
\* C32: every value stored by a successful push_front is disposed of
\* exactly once: moved out by pop_back, or destroyed when its slot returns
\* to the free list (remove, pop_back_ref, pop_back_ref_mut), by clear, or
\* with the slab.  A cell of `data` holds its value from the push until the
\* value is moved out or destroyed, so: the cells holding a value are
\* exactly those of the live list, which Drop destroys once each; a call
\* that returns a slot to the free list leaves its cell without a value; and
\* push_front never stores into a cell that still holds one.
\* Drop for Slab: the slots whose values the loop from head destroys.
drop(self) == LiveWalk(self)

Stored(self) == {s \in 0..(self.cap - 1) : self.data[s] # Uninit}

Cex_C32 ==
    /\ [](~panicked =>
              /\ Terminates(drop(Self)) /\ Distinct(drop(Self))
              /\ Range(drop(Self)) = Stored(Self))
    /\ [][ /\ (last'.op = "push_front" /\ last'.tag = "Ok") =>
                  last'.val \notin Stored(Self)
           /\ (last'.op \in TailPops \cup {"remove"} /\ last'.tag \in {"Ok", "Some"}) =>
                  (last'.arg \in Stored(Self) /\ last'.arg \notin Stored(Self')) ]_vars

\* ----------------------------------------------------------------- C33
\* C33: in the build with debug assertions, no sequence of push_front,
\* remove (any slot argument), pop_back, pop_back_ref, pop_back_ref_mut and
\* clear makes an internal assertion fail: no call panics, and in every
\* state each call that could be made next passes its assertions
\* (len <= capacity after a push, len > 0 before an unlink, the tail's next
\* link is the sentinel, the predecessor of an unlinked slot points at it);
\* 0 <= len <= capacity throughout.
Cex_C33 ==
    /\ ~panicked
    /\ 0 <= len /\ len <= capacity(Self)
    /\ \A v \in Values : push_front(Self, v).ok
    /\ \A s \in SlotArgs(cap) : remove(Self, s).ok
    /\ pop_back(Self).ok /\ pop_back_ref(Self).ok /\ pop_back_ref_mut(Self).ok

\* ----------------------------------------------------------------- C34
\* C34: one iterator driven by any interleaving of next() and next_back()
\* yields each live element exactly once, fronts in head-to-tail order and
\* backs in tail-to-head order, and returns None from both ends once len
\* elements have been yielded.
\* Cursor: the slot a call of next / next_back on iterator `it` looks at.
Cursor(self, it, call) ==
    IF it # ItNone THEN it
    ELSE IF call = "next" THEN self.head ELSE self.tail

\* Drive: the calls of `sched` made in turn on one iterator; for each call
\* what it returned and the slot it yielded.
RECURSIVE Drive(_, _, _)
Drive(self, it, sched) ==
    IF sched = <<>> THEN <<>>
    ELSE LET call == Head(sched)
             r == IF call = "next" THEN next(self, it) ELSE next_back(self, it)
         IN  <<[call |-> call, tag |-> r.tag, val |-> r.val,
                slot |-> Cursor(self, it, call)]>>
             \o Drive(self, r.it, Tail(sched))

Calls(seq, call) == SelectSeq(seq, LAMBDA y : y.call = call)
SlotsOf(seq) == [i \in 1..Len(seq) |-> seq[i].slot]

Cex_C34 ==
    \A sched \in [1..(len + 2) -> {"next", "next_back"}] :
        LET out == Drive(Self, ItNone, sched)
            yielded == SubSeq(out, 1, len)
            fronts == SlotsOf(Calls(yielded, "next"))
            backs == SlotsOf(Calls(yielded, "next_back"))
        IN  /\ \A i \in 1..len :
                  out[i].tag = "Some" /\ out[i].val = data[out[i].slot]
            /\ Range(SlotsOf(yielded)) = Live /\ Distinct(SlotsOf(yielded))
            /\ fronts = SubSeq(LiveWalk(Self), 1, Len(fronts))
            /\ backs = SubSeq(BackWalk(Self), 1, Len(backs))
            /\ out[len + 1].tag = "None" /\ out[len + 2].tag = "None"

\* ----------------------------------------------------------------- C35
\* C35: a write through get_mut(slot) on a live slot changes only the
\* value stored in that slot: get(slot) then returns the new value, while
\* len, the head-to-tail order, all links, the occupancy of every slot and
\* the values of all other slots are as before; a get_mut that fails
\* changes nothing.  (get, contains_slot, iter and the size queries take
\* the slab by shared reference and are operators without effect here.)
Thm_C35 ==
    [][ (last'.op = "get_mut") =>
            /\ last'.tag = "Ok" =>
                   /\ last'.arg \in Live
                   /\ get(Self', last'.arg) = OkWith(last'.val)
                   /\ len' = len /\ LiveWalk(Self') = LiveWalk(Self)
                   /\ <<vec_next', vec_prev', head', tail', free_head', cap'>>
                          = <<vec_next, vec_prev, head, tail, free_head, cap>>
                   /\ \A s \in InRange :
                          /\ contains_slot(Self', s) = contains_slot(Self, s)
                          /\ (s # last'.arg) => get(Self', s) = get(Self, s)
                   /\ \A s \in InRange \ {last'.arg} : data'[s] = data[s]
                   /\ <<free(Self'), is_empty(Self'), is_full(Self'), capacity(Self')>>
                          = <<free(Self), is_empty(Self), is_full(Self), capacity(Self)>>
            /\ last'.tag # "Ok" => Self' = Self ]_vars

Wit_C35 ==
    /\ last.op = "get_mut" /\ last.tag = "Ok" /\ last.arg = tail
    /\ len = 2 /\ head # tail /\ data[tail] = 2 /\ data[head] = 1

\* ----------------------------------------------------------------- C36
\* C36: in the ObjectPool example, for every sequence of acquire,
\* release(slot) (any slot, possibly released more than once) and reset,
\* acquire never hands out a slot that is acquired and not yet released,
\* and in_use() = slab.len() - free_slots.len() never underflows and is the
\* number of slots currently acquired.
Cex_C36 ==
    /\ [](/\ ~panicked
          /\ in_use(Pool) = [tag |-> "Ok", val |-> Cardinality(acquired)])
    /\ [][ (last'.op = "acquire" /\ last'.tag = "Ok") =>
               last'.val \notin acquired ]_vars

\* ----------------------------------------------------------------- C37
\* C37: after any sequence of push_front, remove, pop_back and clear the
\* prev link of the slot at free_head is the sentinel; so a push_front that
\* claims free_head never takes its `prev != NUL` branch, rewrites the next
\* link of no slot but the claimed one, and touches the prev link only of
\* the next free slot, the old live head and the claimed slot.
Thm_C37 ==
    /\ []((free_head # NUL) => (vec_prev[as_index(free_head)] = NUL))
    /\ [][ (last'.op = "push_front" /\ last'.tag = "Ok") =>
               LET free_slot == free_head
                   next_free == vec_next[as_index(free_slot)]
               IN  /\ last'.val = free_slot
                   /\ vec_prev[as_index(free_slot)] = NUL
                   /\ \A s \in InRange \ {free_slot} : vec_next'[s] = vec_next[s]
                   /\ \A s \in InRange \ {next_free, head, free_slot} :
                          vec_prev'[s] = vec_prev[s] ]_vars

Wit_C37 ==
    /\ last.op = "push_front" /\ last.tag = "Ok" /\ last.val = 0
    /\ cap = 3 /\ len = 2 /\ free_head = 1 /\ freed[1] = "remove"
    /\ vec_prev[1] = NUL /\ vec_next[0] = 2

====
